---- MODULE Spec2Model ----
(***************************************************************************)
(* Model of the mnemonikey recovery-phrase codec and of the Mnemonikey     *)
(* constructor: New, EncodeMnemonic, DecodeMnemonic and Recover.           *)
(*                                                                         *)
(* Representation.                                                         *)
(*   big.Int    in a computation, a sequence of bits, least significant    *)
(*              bit first; high zero bits do not change the value (BigEq   *)
(*              compares values). The big.Int a Seed holds is written as   *)
(*              its bytes, most significant first (Held, Bits).            *)
(*   []byte     a sequence of numbers in 0..255, first byte first.         *)
(*   time.Time  a record [zero, sec, nsec]: sec counts whole seconds since *)
(*              EpochStart (unix 1672531200), nsec the nanoseconds within  *)
(*              the second; zero marks Go's zero time.Time, which is       *)
(*              before every other instant of the model.                   *)
(*   phrase     a sequence of words; a word of the wordlist is written as  *)
(*              its index in 0..2^BitsPerWord-1, UnknownWord is a word     *)
(*              that is not in the wordlist.                               *)
(***************************************************************************)
EXTENDS Integers, Sequences, FiniteSets, TLC

\* ------------------------------------------------------------ parameters

\* Seconds in one EpochIncrement (time.Second).
EpochIncrement == 1

NanosPerSecond == 1000000000

CreationOffsetBitCount == 30

ChecksumBitCount == 5

EntropyBitCount == 128

MnemonicSize == 15

\* Bit width of one word of the wordlist (mnemonic.BitsPerWord).
BitsPerWord == 11

Pow2(n) == 2 ^ n

\* ------------------------------------------------------------ big.Int

Max(a, b) == IF a >= b THEN a ELSE b

Min(a, b) == IF a <= b THEN a ELSE b

\* A function on 1..n as a sequence value of n elements.
Tup(f, n) == SubSeq(f, 1, n)

Zeros(n) == Tup([i \in 1..n |-> 0], n)

Ones(n) == Tup([i \in 1..n |-> 1], n)

BitAt(b, i) == IF i >= 1 /\ i <= Len(b) THEN b[i] ELSE 0

\* big.NewInt(n) for 0 <= n < 2^w, written on w bits.
NewInt(n, w) == Tup([i \in 1..w |-> (n \div Pow2(i - 1)) % 2], w)

RECURSIVE Uint64(_)
\* (*big.Int).Uint64 of a value below 2^31.
Uint64(b) == IF Len(b) = 0 THEN 0 ELSE b[1] + 2 * Uint64(Tail(b))

Lsh(b, n) == Zeros(n) \o b

Rsh(b, n) == SubSeq(b, n + 1, Len(b))

BigAnd(a, b) == Tup([i \in 1..Min(Len(a), Len(b)) |-> a[i] * b[i]],
                   Min(Len(a), Len(b)))

BigOr(a, b) == Tup([i \in 1..Max(Len(a), Len(b)) |->
                      IF BitAt(a, i) = 1 \/ BitAt(b, i) = 1 THEN 1 ELSE 0],
                   Max(Len(a), Len(b)))

\* Equality of the values of two big.Int.
BigEq(a, b) == \A i \in 1..Max(Len(a), Len(b)) : BitAt(a, i) = BitAt(b, i)

\* (*big.Int).FillBytes: big-endian, left-zero-padded to n bytes. The value
\* must fit (FillBytes panics otherwise); every caller passes one that does.
FillBytes(b, n) == Tup([k \in 1..n |->
                          LET base == 8 * (n - k)
                          IN  BitAt(b, base + 1) + 2 * BitAt(b, base + 2)
                              + 4 * BitAt(b, base + 3) + 8 * BitAt(b, base + 4)
                              + 16 * BitAt(b, base + 5) + 32 * BitAt(b, base + 6)
                              + 64 * BitAt(b, base + 7) + 128 * BitAt(b, base + 8)], n)

\* The bits of a big.Int held as bytes, and the bytes to hold one.
Bits(bytes) == Tup([i \in 1..(8 * Len(bytes)) |->
                      (bytes[Len(bytes) - ((i - 1) \div 8)] \div Pow2((i - 1) % 8)) % 2],
                   8 * Len(bytes))

Held(b) == FillBytes(b, (Len(b) + 7) \div 8)

\* ------------------------------------------------------------ CRC-32

\* The reflected IEEE polynomial 0xEDB88320, least significant bit first.
IEEEPoly == NewInt(33568, 16) \o NewInt(60856, 16)

\* One step of the bitwise CRC on a register of 32 bits, least significant
\* bit first: shift right, and subtract the polynomial if a one fell off.
crcShift(reg) == Tup([i \in 1..32 |->
                        LET s == IF i < 32 THEN reg[i + 1] ELSE 0
                        IN  IF reg[1] = 1 THEN (s + IEEEPoly[i]) % 2 ELSE s], 32)

\* crc32.IEEETable: entry n + 1 is the register n after eight steps.
IEEETable ==
    Tup([n \in 1..256 |->
           crcShift(crcShift(crcShift(crcShift(crcShift(crcShift(crcShift(crcShift(
               NewInt(n - 1, 8) \o Zeros(24))))))))) ], 256)

\* crc = IEEETable[byte(crc) ^ b] ^ (crc >> 8)
crcByte(reg, b) ==
    LET bits == NewInt(b, 8)
        n    == Uint64(Tup([i \in 1..8 |-> (reg[i] + bits[i]) % 2], 8))
        t    == IEEETable[n + 1]
    IN  Tup([i \in 1..32 |-> (t[i] + (IF i <= 24 THEN reg[i + 8] ELSE 0)) % 2], 32)

RECURSIVE crcUpdate(_, _, _)
\* Feeds bytes[k..] into the register. (The test on Len(reg) makes TLC
\* compute the register byte by byte instead of deferring the whole chain of
\* steps to the end.)
crcUpdate(reg, bytes, k) ==
    IF k > Len(bytes) \/ Len(reg) # 32 THEN reg
    ELSE crcUpdate(crcByte(reg, bytes[k]), bytes, k + 1)

\* crc32.ChecksumIEEE(bytes) as 32 bits, least significant first.
ChecksumIEEE(bytes) == LET r == crcUpdate(Ones(32), bytes, 1)
                       IN  Tup([i \in 1..32 |-> 1 - r[i]], 32)

\* checksumMask & crc32.ChecksumIEEE(bytes), a number below 2^ChecksumBitCount.
checksumOf(bytes) == Uint64(SubSeq(ChecksumIEEE(bytes), 1, ChecksumBitCount))

\* ------------------------------------------------------------ time.Time

ZeroTime == [zero |-> TRUE, sec |-> 0, nsec |-> 0]

At(s, n) == [zero |-> FALSE, sec |-> s, nsec |-> n]

\* time.Date(2023, 1, 1, 0, 0, 0, 0, time.UTC): the origin of sec.
EpochStart == At(0, 0)

IsZero(t) == t.zero

\* t.After(u)
After(t, u) == IF t.zero THEN FALSE
               ELSE IF u.zero THEN TRUE
               ELSE t.sec > u.sec \/ (t.sec = u.sec /\ t.nsec > u.nsec)

\* t.Before(u)
Before(t, u) == After(u, t)

\* A time.Duration of n EpochIncrements, as [sec, nsec] with 0 <= nsec < 10^9.
Increments(n) == [sec |-> n * EpochIncrement, nsec |-> 0]

\* t.Add(d), t not the zero time.
Add(t, d) == LET n == t.nsec + d.nsec
             IN  At(t.sec + d.sec + (n \div NanosPerSecond), n % NanosPerSecond)

\* t.Sub(u), neither the zero time: the duration [sec, nsec], sec*10^9 + nsec
\* nanoseconds with 0 <= nsec < 10^9.
Sub(t, u) == IF t.nsec >= u.nsec
             THEN [sec |-> t.sec - u.sec, nsec |-> t.nsec - u.nsec]
             ELSE [sec |-> t.sec - u.sec - 1, nsec |-> NanosPerSecond + t.nsec - u.nsec]

\* d / EpochIncrement: Go's integer division, which truncates toward zero.
DivIncrement(d) == LET whole == IF d.sec < 0 /\ d.nsec > 0 THEN d.sec + 1 ELSE d.sec
                   IN  IF whole >= 0 THEN whole \div EpochIncrement
                       ELSE 0 - ((0 - whole) \div EpochIncrement)

MaxCreationTime_offByOne == Add(EpochStart, Increments(Pow2(CreationOffsetBitCount)))

\* EpochStart.Add(EpochIncrement * (time.Duration(1<<CreationOffsetBitCount) - 1))
MaxCreationTime == Add(EpochStart, Increments(Pow2(CreationOffsetBitCount) - 1))

\* ------------------------------------------------------------ errors

\* An error is the chain of the errors it wraps, outermost first; nil is <<>>.
NoErr == <<>>

ErrInvalidChecksum == <<"ErrInvalidChecksum">>

ErrInvalidWordCount == <<"ErrInvalidWordCount">>

ErrUnknownWord == <<"ErrUnknownWord">>

ErrInvalidIndex == <<"ErrInvalidIndex">>

ErrExpiryTooEarly == <<"ErrExpiryTooEarly">>

ErrCreationTooLate == <<"ErrCreationTooLate">>

ErrCreationTooEarly == <<"ErrCreationTooEarly">>

ErrBuilder == <<"ErrBuilder">>

\* fmt.Errorf("...: %w", err)
Wrapf(msg, err) == <<msg>> \o err

\* errors.Is(err, target)
ErrorIs(err, target) == \E i \in 1..Len(err) : err[i] = target[1]

\* A nil pointer.
Nil == [nil |-> TRUE]

\* ------------------------------------------------------------ Seed

\* 2^EntropyBitCount - 1
entropyMask == Ones(EntropyBitCount)

\* NewSeed keeps the low EntropyBitCount bits of the given integer.
NewSeed(entropyInt) == [Value |-> Held(BigAnd(entropyInt, entropyMask))]

\* (*Seed).Bytes: the seed on EntropyBitCount/8 bytes, big-endian.
SeedBytes(seed) == FillBytes(Bits(seed.Value), EntropyBitCount \div 8)

\* ------------------------------------------------------------ word codec

\* A word that is not in the wordlist.
UnknownWord == 0 - 1

\* mnemonic.DecodeMnemonic: the words' indices, or an error when a word is
\* not in the wordlist.
wordsToIndices(words) ==
    IF \E i \in 1..Len(words) : words[i] = UnknownWord
    THEN [indices |-> <<>>, err |-> ErrUnknownWord]
    ELSE [indices |-> words, err |-> NoErr]

RECURSIVE concatIndices(_, _)
concatIndices(indices, k) ==
    IF k = 0 THEN <<>>
    ELSE NewInt(indices[k], BitsPerWord) \o concatIndices(indices, k - 1)

\* mnemonic.DecodeIndices: the integer whose BitsPerWord-bit digits are the
\* indices, the first index the most significant, or an error when an index
\* is not an index of the wordlist.
DecodeIndices(indices) ==
    IF \E i \in 1..Len(indices) : indices[i] < 0 \/ indices[i] >= Pow2(BitsPerWord)
    THEN [value |-> <<>>, err |-> ErrInvalidIndex]
    ELSE [value |-> concatIndices(indices, Len(indices)), err |-> NoErr]

\* mnemonic.EncodeToIndices: the value on bitSize bits as BitsPerWord-bit
\* digits, the first the most significant, unused high bits zero.
EncodeToIndices(payloadInt, bitSize) ==
    LET nWords == (bitSize + BitsPerWord - 1) \div BitsPerWord
    IN  Tup([j \in 1..nWords |->
               LET lo == (nWords - j) * BitsPerWord
               IN  Uint64(Tup([i \in 1..BitsPerWord |-> BitAt(payloadInt, lo + i)],
                              BitsPerWord))], nWords)

\* mnemonic.EncodeToMnemonic: the words of the indices.
EncodeToMnemonic(indices) == [words |-> indices, err |-> NoErr]

\* ------------------------------------------------------------ key options

\* new(KeyOptions)
NewKeyOptions == [Expiry |-> ZeroTime, Identity |-> ""]

\* The user identity the key-set builder refuses.
BadIdentity == "rejected"

\* derivePGPKeySet: deterministic in its three arguments; the key set is
\* written as the arguments it is derived from.
derivePGPKeySet(seedBytes, creation, opts) ==
    IF opts.Identity = BadIdentity
    THEN [keySet |-> Nil, err |-> ErrBuilder]
    ELSE [keySet |-> [seedBytes |-> seedBytes, creation |-> creation, opts |-> opts],
          err |-> NoErr]

\* ------------------------------------------------------------ New

expiryConflicts_notAfter(creation, opts) ==
    ~IsZero(opts.Expiry) /\ ~After(opts.Expiry, creation)

\* !opts.Expiry.IsZero() && creation.After(opts.Expiry)
expiryConflicts(creation, opts) ==
    ~IsZero(opts.Expiry) /\ After(creation, opts.Expiry)

\* creation.Sub(EpochStart) / EpochIncrement
creationOffsetOf(creation) == DivIncrement(Sub(creation, EpochStart))

floorCreation_roundUp(creation) ==
    LET d == Sub(creation, EpochStart)
    IN  Add(EpochStart, Increments(DivIncrement(d) + (IF d.nsec > 0 THEN 1 ELSE 0)))

\* creation floored to the EpochIncrement at or below it.
floorCreation(creation) == Add(EpochStart, Increments(creationOffsetOf(creation)))

\* The result of New: the Mnemonikey and the error, and (for the record) the
\* arguments of the call of the key-set builder, Nil when it was not called.
New(seed, creation, givenOpts) ==
    LET opts == IF givenOpts = Nil THEN NewKeyOptions ELSE givenOpts
    IN  IF expiryConflicts(creation, opts)
        THEN [mnk |-> Nil, err |-> ErrExpiryTooEarly, derived |-> Nil]
        ELSE IF After(creation, MaxCreationTime)
        THEN [mnk |-> Nil, err |-> ErrCreationTooLate, derived |-> Nil]
        ELSE IF Before(creation, EpochStart)
        THEN [mnk |-> Nil, err |-> ErrCreationTooEarly, derived |-> Nil]
        ELSE LET floored == floorCreation(creation)
                 built   == derivePGPKeySet(SeedBytes(seed), floored, opts)
                 call    == [seedBytes |-> SeedBytes(seed), creation |-> floored,
                             opts |-> opts]
             IN  IF built.err # NoErr
                 THEN [mnk |-> Nil, err |-> built.err, derived |-> call]
                 ELSE [mnk |-> [seed |-> seed, keyCreationTime |-> floored,
                                pgpKeySet |-> built.keySet],
                       err |-> NoErr, derived |-> call]

CreatedAt(mnk) == mnk.keyCreationTime

\* ------------------------------------------------------------ EncodeMnemonic

\* seed.Value << CreationOffsetBitCount | creationOffset
encodePayloadInt(mnk) ==
    LET creationOffset == DivIncrement(Sub(mnk.keyCreationTime, EpochStart))
    IN  BigOr(Lsh(Bits(mnk.seed.Value), CreationOffsetBitCount),
              NewInt(creationOffset, CreationOffsetBitCount + 1))

\* EntropyBitCount + CreationOffsetBitCount
encodePayloadBitCount == EntropyBitCount + CreationOffsetBitCount

\* The bytes EncodeMnemonic hands to crc32.ChecksumIEEE.
encodePayloadBytes(mnk) ==
    FillBytes(encodePayloadInt(mnk), (encodePayloadBitCount + 7) \div 8)

EncodeMnemonic(mnk) ==
    LET checksum   == checksumOf(encodePayloadBytes(mnk))
        payloadInt == BigOr(Lsh(encodePayloadInt(mnk), ChecksumBitCount),
                            NewInt(checksum, ChecksumBitCount))
        indices    == EncodeToIndices(payloadInt, encodePayloadBitCount + ChecksumBitCount)
        encoded    == EncodeToMnemonic(indices)
    IN  IF encoded.err # NoErr
        THEN [words |-> <<>>, err |-> Wrapf("failed to encode indices to words", encoded.err)]
        ELSE [words |-> encoded.words, err |-> NoErr]

\* ------------------------------------------------------------ DecodeMnemonic

\* mnemonic.BitsPerWord*uint(len(words)) - ChecksumBitCount
decodePayloadBitCount(words) == BitsPerWord * Len(words) - ChecksumBitCount

decodePayloadBytes_roundedUp(payloadInt, words) ==
    FillBytes(payloadInt, decodePayloadBitCount(words) \div 8 + 1)

\* The bytes DecodeMnemonic hands to crc32.ChecksumIEEE: payloadInt is the
\* reassembled integer with the checksum bits shifted off.
decodePayloadBytes(payloadInt, words) ==
    FillBytes(payloadInt, (decodePayloadBitCount(words) + 7) \div 8)

\* The seed DecodeMnemonic returns: the bits above the creation offset.
decodeSeed(payloadInt) == NewSeed(Rsh(payloadInt, CreationOffsetBitCount))

decodeCreation_narrowMask(payloadInt) ==
    Add(EpochStart,
        Increments(Uint64(BigAnd(payloadInt, Ones(CreationOffsetBitCount - 1)))))

decodeCreation_wideMask(payloadInt) ==
    Add(EpochStart,
        Increments(Uint64(BigAnd(payloadInt, Ones(CreationOffsetBitCount + 1)))))

\* The creation time DecodeMnemonic returns.
decodeCreation(payloadInt) ==
    LET creationOffset ==
            Uint64(BigAnd(payloadInt, NewInt(Pow2(CreationOffsetBitCount) - 1,
                                             CreationOffsetBitCount)))
    IN  Add(EpochStart, Increments(creationOffset))

\* What DecodeMnemonic returns when it fails: the named results seed and
\* creation are still unset.
decodeFailed(err, lookedUp, summed) ==
    [seed |-> Nil, creation |-> ZeroTime, err |-> err,
     lookedUp |-> lookedUp, summed |-> summed]

\* DecodeMnemonic once the words are looked up: the indices are reassembled
\* (an error of the index codec is returned as it is, before any checksum),
\* the checksum is split off and verified, then the creation offset and the
\* seed are taken.
decodePayload_eager(words, indices) ==
    LET reassembled == DecodeIndices(indices)
        full == reassembled.value
        expectedChecksum ==
            Uint64(BigAnd(full, NewInt(Pow2(ChecksumBitCount) - 1, ChecksumBitCount)))
        payloadInt   == Rsh(full, ChecksumBitCount)
        payloadBytes == decodePayloadBytes(payloadInt, words)
    IN  IF reassembled.err # NoErr
        THEN decodeFailed(reassembled.err, TRUE, <<>>)
        ELSE [seed |-> decodeSeed(payloadInt), creation |-> decodeCreation(payloadInt),
              err |-> IF checksumOf(payloadBytes) # expectedChecksum
                      THEN ErrInvalidChecksum ELSE NoErr,
              lookedUp |-> TRUE, summed |-> payloadBytes]

decodePayload(words, indices) ==
    LET reassembled == DecodeIndices(indices)
        full == reassembled.value
        expectedChecksum ==
            Uint64(BigAnd(full, NewInt(Pow2(ChecksumBitCount) - 1, ChecksumBitCount)))
        payloadInt   == Rsh(full, ChecksumBitCount)
        payloadBytes == decodePayloadBytes(payloadInt, words)
        checksum     == checksumOf(payloadBytes)
    IN  IF reassembled.err # NoErr
        THEN decodeFailed(reassembled.err, TRUE, <<>>)
        ELSE IF checksum # expectedChecksum
        THEN decodeFailed(ErrInvalidChecksum, TRUE, payloadBytes)
        ELSE [seed |-> decodeSeed(payloadInt), creation |-> decodeCreation(payloadInt),
              err |-> NoErr, lookedUp |-> TRUE, summed |-> payloadBytes]

DecodeMnemonic_lookupFirst(words) ==
    LET looked == wordsToIndices(words)
    IN  IF looked.err # NoErr
        THEN decodeFailed(looked.err, TRUE, <<>>)
        ELSE IF Len(words) # MnemonicSize
        THEN decodeFailed(ErrInvalidWordCount, TRUE, <<>>)
        ELSE decodePayload(words, looked.indices)

\* The results (seed, creation, err) of DecodeMnemonic and, for the record,
\* whether the words were looked up in the wordlist (lookedUp) and the bytes
\* that were checksummed (summed, <<>> when the checksum was not computed).
DecodeMnemonic(words) ==
    IF Len(words) # MnemonicSize
    THEN decodeFailed(ErrInvalidWordCount, FALSE, <<>>)
    ELSE LET looked == wordsToIndices(words)
         IN  IF looked.err # NoErr
             THEN decodeFailed(looked.err, TRUE, <<>>)
             ELSE decodePayload(words, looked.indices)

\* ------------------------------------------------------------ Recover

Recover_dropsOptions(words, opts) ==
    LET d == DecodeMnemonic(words)
    IN  IF d.err # NoErr
        THEN [mnk |-> Nil, err |-> d.err, decoded |-> d, newCalled |-> FALSE,
              derived |-> Nil]
        ELSE LET n == New(d.seed, d.creation, Nil)
             IN  IF n.err # NoErr
                 THEN [mnk |-> Nil,
                       err |-> Wrapf("failed to recover key from decoded mnemonic", n.err),
                       decoded |-> d, newCalled |-> TRUE, derived |-> n.derived]
                 ELSE [mnk |-> n.mnk, err |-> NoErr, decoded |-> d, newCalled |-> TRUE,
                       derived |-> n.derived]

\* The results (mnk, err) of Recover and, for the record, the result of its
\* call of DecodeMnemonic, whether it called New, and what New then handed
\* the key-set builder (Nil when the builder was not called).
Recover(words, opts) ==
    LET d == DecodeMnemonic(words)
    IN  IF d.err # NoErr
        THEN [mnk |-> Nil, err |-> d.err, decoded |-> d, newCalled |-> FALSE,
              derived |-> Nil]
        ELSE LET n == New(d.seed, d.creation, opts)
             IN  IF n.err # NoErr
                 THEN [mnk |-> Nil,
                       err |-> Wrapf("failed to recover key from decoded mnemonic", n.err),
                       decoded |-> d, newCalled |-> TRUE, derived |-> n.derived]
                 ELSE [mnk |-> n.mnk, err |-> NoErr, decoded |-> d, newCalled |-> TRUE,
                       derived |-> n.derived]

\* ------------------------------------------------------------ inputs

\* Number of seed values tried.
NumSeeds == 3

\* How many seconds around EpochStart and MaxCreationTime are tried.
Margin == 1

\* The seeds tried: all zero, all one, then bit patterns with a zero top bit.
SeedValue(k) ==
    IF k = 0 THEN Zeros(EntropyBitCount)
    ELSE IF k = 1 THEN Ones(EntropyBitCount)
    ELSE Tup([i \in 1..EntropyBitCount |->
                IF i < EntropyBitCount - k /\ (i * (2 * k + 1)) % 5 < 2 THEN 1 ELSE 0],
             EntropyBitCount)

Seeds == {[Value |-> Held(SeedValue(k))] : k \in 0..(NumSeeds - 1)}

MaxOffset == Pow2(CreationOffsetBitCount) - 1

CreationSeconds == ((0 - Margin)..Margin) \cup ((MaxOffset - Margin)..(MaxOffset + Margin))

\* Instants on an EpochIncrement boundary and just before the next one.
Creations == {At(sec, n) : sec \in CreationSeconds, n \in {0, NanosPerSecond - 1}}
             \cup {ZeroTime}

\* Expiries around a creation time: unset, the same instant, one increment
\* before and after it, and the start of its second.
ExpiriesFor(creation) ==
    IF IsZero(creation) THEN {ZeroTime, EpochStart}
    ELSE {ZeroTime, creation, At(creation.sec, 0),
          Add(creation, Increments(1)), At(creation.sec - EpochIncrement, creation.nsec)}

OptionsFor(creation) ==
    {Nil} \cup {[Expiry |-> e, Identity |-> id] :
                   e \in ExpiriesFor(creation), id \in {"alice", BadIdentity}}

\* The options tried in Recover, besides those of the original New.
RecoverOptions ==
    {Nil, [Expiry |-> EpochStart, Identity |-> "alice"],
     [Expiry |-> ZeroTime, Identity |-> BadIdentity]}

\* The bits of a phrase above the seed: the unused high-order bits of the
\* first word.
PaddingBitCount ==
    BitsPerWord * MnemonicSize - encodePayloadBitCount - ChecksumBitCount

\* A phrase with the unused high-order bits of its first word set to pad and
\* the checksum recomputed over the value with these bits.
withPadding(words, pad) ==
    LET full == DecodeIndices(words).value
        body == SubSeq(Rsh(full, ChecksumBitCount), 1, encodePayloadBitCount)
                \o NewInt(pad, PaddingBitCount)
        sum  == checksumOf(FillBytes(body, (Len(body) + 7) \div 8))
    IN  EncodeToIndices(NewInt(sum, ChecksumBitCount) \o body, BitsPerWord * MnemonicSize)

\* What a hand copy can make of a phrase: one word replaced by its successor
\* in the wordlist or by a word outside the wordlist, a word lost, a word
\* added, and padding bits set.
Miscopies(words) ==
    {[words EXCEPT ![i] = (words[i] + 1) % Pow2(BitsPerWord)] : i \in {1, Len(words)}}
    \cup {[words EXCEPT ![1] = UnknownWord]}
    \cup {SubSeq(words, 1, Len(words) - 1), Append(words, 0),
          Append(SubSeq(words, 1, Len(words) - 1), UnknownWord) \o <<UnknownWord>>}
    \cup {withPadding(words, pad) : pad \in 1..(Pow2(PaddingBitCount) - 1)}

\* ------------------------------------------------------------ state

VARIABLES
    pc,         \* what the caller did last
    args,       \* the arguments [seed, creation, opts] of the call of New
    made,       \* the result of that call
    again,      \* the result of New(seed, mnk.CreatedAt(), opts)
    phrase,     \* the recovery phrase at hand
    origin,     \* "encoder": the phrase is as EncodeMnemonic returned it
    summed,     \* the bytes EncodeMnemonic checksummed for that phrase
    decoded,    \* the result of DecodeMnemonic(phrase)
    recOpts,    \* the options given to Recover
    recovered,  \* the result of Recover(phrase, recOpts)
    reencoded   \* the result of EncodeMnemonic on the recovered Mnemonikey

vars == <<pc, args, made, again, phrase, origin, summed, decoded, recOpts,
          recovered, reencoded>>

Init ==
    /\ pc = "start"
    /\ args = Nil
    /\ made = Nil
    /\ again = Nil
    /\ phrase = <<>>
    /\ origin = "none"
    /\ summed = <<>>
    /\ decoded = Nil
    /\ recOpts = Nil
    /\ recovered = Nil
    /\ reencoded = Nil

\* mnk, err := New(seed, creation, opts)
CallNew ==
    /\ pc = "start"
    /\ \E seed \in Seeds, creation \in Creations :
         \E opts \in OptionsFor(creation) :
            /\ args' = [seed |-> seed, creation |-> creation, opts |-> opts]
            /\ made' = New(seed, creation, opts)
    /\ pc' = "new"
    /\ UNCHANGED <<again, phrase, origin, summed, decoded, recOpts, recovered, reencoded>>

\* New(seed, mnk.CreatedAt(), opts) for the Mnemonikey just made
CallNewAgain ==
    /\ pc = "new"
    /\ made.mnk # Nil
    /\ again' = New(args.seed, CreatedAt(made.mnk), args.opts)
    /\ pc' = "again"
    /\ UNCHANGED <<args, made, phrase, origin, summed, decoded, recOpts, recovered, reencoded>>

\* words, err := mnk.EncodeMnemonic()
CallEncodeMnemonic ==
    /\ pc = "new"
    /\ made.mnk # Nil
    /\ phrase' = EncodeMnemonic(made.mnk).words
    /\ summed' = encodePayloadBytes(made.mnk)
    /\ origin' = "encoder"
    /\ pc' = "phrase"
    /\ UNCHANGED <<args, made, again, decoded, recOpts, recovered, reencoded>>

\* The phrase is copied by hand, with a mistake; the Mnemonikey is gone.
Miscopy ==
    /\ pc = "phrase"
    /\ origin = "encoder"
    /\ \E words \in Miscopies(phrase) : phrase' = words
    /\ origin' = "hand"
    /\ args' = Nil
    /\ made' = Nil
    /\ summed' = <<>>
    /\ UNCHANGED <<pc, again, decoded, recOpts, recovered, reencoded>>

\* seed, creation, err := DecodeMnemonic(words)
CallDecodeMnemonic ==
    /\ pc = "phrase"
    /\ decoded' = DecodeMnemonic(phrase)
    /\ pc' = "decoded"
    /\ UNCHANGED <<args, made, again, phrase, origin, summed, recOpts, recovered, reencoded>>

\* mnk, err := Recover(words, opts)
CallRecover ==
    /\ pc = "phrase"
    /\ \E opts \in RecoverOptions \cup (IF args = Nil THEN {} ELSE {args.opts}) :
         /\ recOpts' = opts
         /\ recovered' = Recover(phrase, opts)
    /\ pc' = "recovered"
    /\ UNCHANGED <<args, made, again, phrase, origin, summed, decoded, reencoded>>

\* words, err := mnk.EncodeMnemonic() on the recovered Mnemonikey
CallEncodeRecovered ==
    /\ pc = "recovered"
    /\ recovered.mnk # Nil
    /\ reencoded' = EncodeMnemonic(recovered.mnk)
    /\ pc' = "reencoded"
    /\ UNCHANGED <<args, made, again, phrase, origin, summed, decoded, recOpts, recovered>>

Next ==
    \/ CallNew
    \/ CallNewAgain
    \/ CallEncodeMnemonic
    \/ Miscopy
    \/ CallDecodeMnemonic
    \/ CallRecover
    \/ CallEncodeRecovered

Spec == Init /\ [][Next]_vars

\* ------------------------------------------------------------ properties

\* t is EpochStart plus a whole number of EpochIncrements.
OnBoundary(t) == ~t.zero /\ t.nsec = 0 /\ t.sec % EpochIncrement = 0

\* t <= u, instant by instant.
NotLater(t, u) == t.sec < u.sec \/ (t.sec = u.sec /\ t.nsec <= u.nsec)

\* f is the largest EpochStart + k*EpochIncrement that is <= t.
IsFloorOf(f, t) ==
    /\ OnBoundary(f)
    /\ NotLater(f, t)
    /\ ~NotLater(At(f.sec + EpochIncrement, 0), t)

\* EpochStart <= t <= EpochStart + (2^CreationOffsetBitCount - 1) increments
Representable(t) == ~t.zero /\ t.sec >= 0 /\ NotLater(t, At(MaxOffset * EpochIncrement, 0))

\* The options New works with.
Effective(opts) == IF opts = Nil THEN NewKeyOptions ELSE opts

\* C1: decoding the phrase EncodeMnemonic returns for the Mnemonikey that
\* New(seed, creation, opts) made succeeds and returns the seed and the
\* creation time floored to its EpochIncrement.
C1_RoundTrip ==
    (pc = "decoded" /\ origin = "encoder") =>
        /\ decoded.err = NoErr
        /\ decoded.seed # Nil
        /\ BigEq(Bits(decoded.seed.Value), Bits(args.seed.Value))
        /\ Len(Bits(decoded.seed.Value)) = EntropyBitCount
        /\ IsFloorOf(decoded.creation, args.creation)

\* C1 happens: a phrase of a seed of all ones and of a creation time that is
\* not on a boundary was decoded.
C1_Witness ==
    /\ pc = "decoded"
    /\ origin = "encoder"
    /\ Bits(args.seed.Value) = Ones(EntropyBitCount)
    /\ args.creation.nsec > 0
    /\ decoded.creation.sec = MaxOffset - 1

\* C2: Recover, given the phrase of a Mnemonikey and the options it was made
\* with, succeeds and hands the key-set builder the seed bytes, the creation
\* time and the options New handed it, so the key set is the same.
C2_Regeneration ==
    (pc = "recovered" /\ origin = "encoder" /\ recOpts = args.opts) =>
        /\ recovered.err = NoErr
        /\ recovered.mnk # Nil
        /\ recovered.newCalled
        /\ recovered.derived = made.derived
        /\ recovered.mnk.pgpKeySet = made.mnk.pgpKeySet
        /\ made.derived.opts = Effective(args.opts)
        /\ ~expiryConflicts(recovered.decoded.creation, Effective(recOpts))

\* C2 happens: the key was made with an expiry and a creation time off the
\* boundary, and was recovered with the same options.
C2_Witness ==
    /\ pc = "recovered"
    /\ origin = "encoder"
    /\ recOpts = args.opts
    /\ args.opts # Nil
    /\ ~IsZero(args.opts.Expiry)
    /\ args.creation.nsec > 0
    /\ recovered.mnk # Nil

\* C3: encoding the Mnemonikey recovered from an accepted phrase gives that
\* phrase back, whatever the padding bits of its first word.
C3_ReencodeReproduces ==
    (pc = "reencoded") => (reencoded.err = NoErr /\ reencoded.words = phrase)

\* C4 as stated: New returns ErrExpiryTooEarly exactly when an expiry is set
\* and is not strictly after the creation time.
C4_AsStated ==
    (pc = "new") =>
        LET e == Effective(args.opts).Expiry
        IN  (made.err = ErrExpiryTooEarly)
            <=> (~e.zero /\ ~args.creation.zero /\ NotLater(e, args.creation))

\* C4 amended: New returns ErrExpiryTooEarly exactly when an expiry is set
\* and the creation time is strictly after it; an expiry equal to the
\* creation time is accepted.
C4_ExpiryTooEarly ==
    (pc = "new") =>
        LET e == Effective(args.opts).Expiry
        IN  (made.err = ErrExpiryTooEarly)
            <=> (~e.zero /\ ~args.creation.zero /\ ~NotLater(args.creation, e))

\* C4 happens: New succeeded with an expiry equal to the creation time.
C4_Witness ==
    /\ pc = "new"
    /\ args.opts # Nil
    /\ args.opts.Expiry = args.creation
    /\ ~args.creation.zero
    /\ made.err = NoErr
    /\ made.mnk # Nil

\* C5: with no expiry and a builder that succeeds, New returns
\* ErrCreationTooLate exactly when creation > MaxCreationTime,
\* ErrCreationTooEarly exactly when creation < EpochStart, and succeeds in
\* between, with offset 0 at EpochStart and 2^30 - 1 at MaxCreationTime.
C5_CreationBounds ==
    (pc = "new" /\ IsZero(Effective(args.opts).Expiry)
                /\ Effective(args.opts).Identity # BadIdentity) =>
        LET c == args.creation
            tooLate  == ~c.zero /\ ~NotLater(c, At(MaxOffset * EpochIncrement, 0))
            tooEarly == c.zero \/ c.sec < 0
        IN  /\ (made.err = ErrCreationTooLate) <=> tooLate
            /\ (made.err = ErrCreationTooEarly) <=> tooEarly
            /\ (~tooLate /\ ~tooEarly) => (made.err = NoErr /\ made.mnk # Nil)
            /\ (c = At(0, 0)) => (made.err = NoErr /\ CreatedAt(made.mnk).sec = 0)
            /\ (c = At(MaxOffset * EpochIncrement, 0)) =>
                   (made.err = NoErr
                    /\ CreatedAt(made.mnk).sec = (Pow2(CreationOffsetBitCount) - 1) * EpochIncrement)
            /\ (c = At((MaxOffset + 1) * EpochIncrement, 0)) => made.err = ErrCreationTooLate

\* C5 happens: New succeeded at MaxCreationTime.
C5_Witness ==
    /\ pc = "new"
    /\ args.opts = Nil
    /\ args.creation = At(MaxOffset * EpochIncrement, 0)
    /\ made.mnk # Nil

\* C6: CreatedAt() of a Mnemonikey New returned is the creation time floored
\* to its EpochIncrement, within [EpochStart, MaxCreationTime]; a time on a
\* boundary is kept, and New on CreatedAt() gives the same CreatedAt().
C6_Quantization ==
    (pc \in {"new", "again"} /\ made.mnk # Nil) =>
        /\ IsFloorOf(CreatedAt(made.mnk), args.creation)
        /\ Representable(CreatedAt(made.mnk))
        /\ OnBoundary(args.creation) => CreatedAt(made.mnk) = args.creation
        /\ (pc = "again") =>
               (again.mnk # Nil /\ CreatedAt(again.mnk) = CreatedAt(made.mnk))

\* C6 happens: New was called again on the CreatedAt() of a Mnemonikey made
\* from a creation time off the boundary.
C6_Witness ==
    /\ pc = "again"
    /\ args.creation.nsec > 0
    /\ again.mnk # Nil

\* C7: DecodeMnemonic on a phrase that is not MnemonicSize words long returns
\* ErrInvalidWordCount, without looking up a word or computing a checksum.
C7_WordCount ==
    (pc = "decoded" /\ Len(phrase) # MnemonicSize) =>
        /\ decoded.err = ErrInvalidWordCount
        /\ ~decoded.lookedUp
        /\ decoded.summed = <<>>

\* C7 happens: a phrase of MnemonicSize + 1 words, with words that are not in
\* the wordlist, was decoded.
C7_Witness ==
    /\ pc = "decoded"
    /\ Len(phrase) = MnemonicSize + 1
    /\ phrase[Len(phrase)] = UnknownWord

\* C8: when DecodeMnemonic returns an error, the seed is nil and the creation
\* time is the zero time; Recover then returns that error and a nil
\* Mnemonikey, and does not call New.
C8_FailedDecode ==
    /\ (pc = "decoded" /\ decoded.err # NoErr) =>
           (decoded.seed = Nil /\ decoded.creation = ZeroTime)
    /\ (pc = "recovered" /\ recovered.decoded.err # NoErr) =>
           /\ recovered.decoded.seed = Nil
           /\ recovered.decoded.creation = ZeroTime
           /\ recovered.mnk = Nil
           /\ ~recovered.newCalled
           /\ recovered.derived = Nil
           /\ recovered.err = recovered.decoded.err

\* C8 happens: the checksum of a reassembled payload was found wrong.
C8_Witness ==
    /\ pc = "decoded"
    /\ decoded.err = ErrInvalidChecksum
    /\ decoded.summed # <<>>

\* C9: for a phrase EncodeMnemonic produced, DecodeMnemonic checksums the
\* bytes EncodeMnemonic checksummed, and does not return ErrInvalidChecksum.
C9_SameChecksumBytes ==
    (pc = "decoded" /\ origin = "encoder") =>
        /\ Len(decoded.summed) = Len(summed)
        /\ decoded.summed = summed
        /\ decoded.err # ErrInvalidChecksum
        /\ checksumOf(summed) = phrase[MnemonicSize] % Pow2(ChecksumBitCount)

\* C9 happens: the checksummed value has leading zero bytes and a final byte
\* that is not zero.
C9_Witness ==
    /\ pc = "decoded"
    /\ origin = "encoder"
    /\ summed # <<>>
    /\ summed[1] = 0
    /\ summed[Len(summed)] # 0

\* C10: the creation time of an accepted phrase is on a boundary within
\* [EpochStart, MaxCreationTime]; Recover on it fails neither with
\* ErrCreationTooEarly nor with ErrCreationTooLate, and New keeps the time.
C10_DecodedCreation ==
    /\ (pc = "decoded" /\ decoded.err = NoErr) =>
           (OnBoundary(decoded.creation) /\ Representable(decoded.creation))
    /\ (pc = "recovered" /\ recovered.decoded.err = NoErr) =>
           /\ ~ErrorIs(recovered.err, ErrCreationTooEarly)
           /\ ~ErrorIs(recovered.err, ErrCreationTooLate)
           /\ recovered.newCalled
           /\ (recovered.derived # Nil) =>
                  recovered.derived.creation = recovered.decoded.creation
           /\ (recovered.mnk # Nil) =>
                  CreatedAt(recovered.mnk) = recovered.decoded.creation

\* C10 happens: a hand-copied phrase with padding bits set was accepted and
\* a key recovered from it, with the latest creation time.
C10_Witness ==
    /\ pc = "recovered"
    /\ origin = "hand"
    /\ phrase[1] >= Pow2(BitsPerWord - PaddingBitCount)
    /\ recovered.mnk # Nil
    /\ recovered.decoded.creation.sec = MaxOffset * EpochIncrement
====
